---- MODULE Spec2Model ----
(***************************************************************************)
(* A model of bagit.py: the tag-file parser, the manifest loader, the     *)
(* Bag object with its compare and validate operations, and make_bag.     *)
(*                                                                         *)
(* Text is modelled as a sequence of one-token strings.  A token is one   *)
(* character (" ", ":", ".", "/", a digit ...) or one opaque word that    *)
(* the code never looks into ("Payload-Oxum", "data", "UTF-8").           *)
(***************************************************************************)
EXTENDS Integers, Sequences, FiniteSets, TLC

VARIABLES
    tagFile,    \* the lines handed to _parse_tags
    parsed,     \* what _parse_tags yielded, and the exception that ended it
    disk,       \* the bag directory on the filesystem
    bag,        \* the Bag object
    pc,         \* where the current validate call stands
    fast,       \* the fast argument of the current validate call
    started,    \* the validation phases started so far, in order
    outcome,    \* the exception the call raised ("none" if none) and what it says
    hashed,     \* the files whose digests the call recomputed
    oxumRun,    \* TRUE once the call has compared the oxum with the payload
    result,     \* the value returned by a compare operation
    src         \* the arguments of make_bag

vars == <<tagFile, parsed, disk, bag, pc, fast, started, outcome, hashed,
          oxumRun, result, src>>

tagVars == <<tagFile, parsed>>
bagVars == <<disk, bag>>
callVars == <<pc, fast, started, outcome, hashed, oxumRun>>

-----------------------------------------------------------------------------
(* Strings *)

BOM == "BOM"
NL == "\n"

\* str.isspace() of one character
IsSpace(c) == c \in {" ", "\t", NL}

\* str.isdigit() of one character
IsDigit(c) == c \in {"0", "1", "2", "3", "4", "5", "6", "7", "8", "9"}

RECURSIVE LStripChars(_, _)
\* s.lstrip(chars): drops every leading token that is in chars
LStripChars(s, chars) ==
    IF s # <<>> /\ Head(s) \in chars THEN LStripChars(Tail(s), chars) ELSE s

RECURSIVE RStripChars(_, _)
RStripChars(s, chars) ==
    IF s # <<>> /\ s[Len(s)] \in chars
    THEN RStripChars(SubSeq(s, 1, Len(s) - 1), chars)
    ELSE s

Whitespace == {" ", "\t", NL}

\* s.strip()
Strip(s) == RStripChars(LStripChars(s, Whitespace), Whitespace)

\* s.isspace(): at least one character and all of them whitespace
IsSpaceStr(s) == s # <<>> /\ \A i \in 1..Len(s) : IsSpace(s[i])

\* s.isdigit()
IsDigitStr(s) == s # <<>> /\ \A i \in 1..Len(s) : IsDigit(s[i])

\* the first index of token c in s, 0 when there is none
Find(s, c) ==
    IF \E i \in 1..Len(s) : s[i] = c
    THEN CHOOSE i \in 1..Len(s) : s[i] = c /\ \A j \in 1..(i - 1) : s[j] # c
    ELSE 0

\* s.split(c, 1)
SplitOnce(s, c) ==
    LET i == Find(s, c)
    IN  IF i = 0 THEN <<s>>
        ELSE <<SubSeq(s, 1, i - 1), SubSeq(s, i + 1, Len(s))>>

\* the first index of a whitespace token in s, 0 when there is none
FindSpace(s) ==
    IF \E i \in 1..Len(s) : IsSpace(s[i])
    THEN CHOOSE i \in 1..Len(s) : IsSpace(s[i]) /\ \A j \in 1..(i - 1) : ~IsSpace(s[j])
    ELSE 0

RECURSIVE SplitWs(_, _)
\* s.split(None, maxsplit): words separated by runs of whitespace; after
\* maxsplit splits the rest of the string, from its first word on, is the last part
SplitWs(s, maxsplit) ==
    LET t == LStripChars(s, Whitespace)
        i == FindSpace(t)
    IN  IF t = <<>> THEN <<>>
        ELSE IF maxsplit = 0 THEN <<t>>
        ELSE IF i = 0 THEN <<t>>
        ELSE <<SubSeq(t, 1, i - 1)>> \o SplitWs(SubSeq(t, i + 1, Len(t)), maxsplit - 1)

RECURSIVE Concat(_)
\* the concatenation of a sequence of strings
Concat(ss) == IF ss = <<>> THEN <<>> ELSE Head(ss) \o Concat(Tail(ss))

-----------------------------------------------------------------------------
(* _parse_tags *)

\* tag_name = None, tag_value = None, nothing yielded yet
ParseStart ==
    [tag_name |-> <<>>, tag_value |-> <<>>, valueNone |-> TRUE,
     yielded |-> <<>>, exc |-> "none"]

\* Mutant of ParseLine: a blank line ends the fold (the tag is flushed and forgotten)
ParseLineBlankEndsFold(st, num, line0) ==
    LET line == IF num = 0 /\ line0 # <<>> /\ Head(line0) = BOM
                THEN LStripChars(line0, {BOM}) ELSE line0
    IN  IF st.exc # "none" THEN st
        ELSE IF Len(line) = 0 \/ IsSpaceStr(line)
        THEN [st EXCEPT !.yielded = IF st.tag_name # <<>>
                                    THEN Append(@, <<st.tag_name, st.tag_value>>) ELSE @,
                        !.tag_name = <<>>, !.tag_value = <<>>]
        ELSE IF IsSpace(line[1])
        THEN IF st.valueNone THEN [st EXCEPT !.exc = "TypeError"]
             ELSE [st EXCEPT !.tag_value = @ \o Strip(line)]
        ELSE LET flushed == IF st.tag_name # <<>>
                            THEN Append(st.yielded, <<st.tag_name, st.tag_value>>)
                            ELSE st.yielded
                 parts == SplitOnce(Strip(line), ":")
             IN  IF Len(parts) < 2
                 THEN [st EXCEPT !.yielded = flushed, !.exc = "IndexError"]
                 ELSE [tag_name |-> Strip(parts[1]),
                       tag_value |-> Strip(parts[2]), valueNone |-> FALSE,
                       yielded |-> flushed, exc |-> "none"]

\* One iteration of the loop of _parse_tags over line number num (from 0)
ParseLine(st, num, line0) ==
    LET \* if 0 == num: if line.startswith(BOM_UTF8): line = line.lstrip(BOM_UTF8)
        line == IF num = 0 /\ line0 # <<>> /\ Head(line0) = BOM
                THEN LStripChars(line0, {BOM}) ELSE line0
    IN  IF st.exc # "none" THEN st
        \* Skip over any empty or blank lines.
        ELSE IF Len(line) = 0 \/ IsSpaceStr(line) THEN st
        \* folded line: tag_value += line.strip(); None += str is a TypeError
        ELSE IF IsSpace(line[1])
        THEN IF st.valueNone THEN [st EXCEPT !.exc = "TypeError"]
             ELSE [st EXCEPT !.tag_value = @ \o Strip(line)]
        \* Starting a new tag; yield the last one.
        ELSE LET flushed == IF st.tag_name # <<>>
                            THEN Append(st.yielded, <<st.tag_name, st.tag_value>>)
                            ELSE st.yielded
                 parts == SplitOnce(Strip(line), ":")
             IN  \* parts[1] of a line with no ':' is an IndexError
                 IF Len(parts) < 2
                 THEN [st EXCEPT !.yielded = flushed, !.exc = "IndexError"]
                 ELSE [tag_name |-> Strip(parts[1]),
                       tag_value |-> Strip(parts[2]), valueNone |-> FALSE,
                       yielded |-> flushed, exc |-> "none"]

RECURSIVE ParseLoop(_, _, _)
\* for num, line in enumerate(file)
ParseLoop(st, num, lines) ==
    IF lines = <<>> THEN st
    ELSE ParseLoop(ParseLine(st, num, Head(lines)), num + 1, Tail(lines))

\* _parse_tags(file): the pairs yielded, and the exception that ended the generator
ParseTags(lines) ==
    LET st == ParseLoop(ParseStart, 0, lines)
    IN  \* Passed the EOF.  All done after this.
        IF st.exc = "none" /\ st.tag_name # <<>>
        THEN [pairs |-> Append(st.yielded, <<st.tag_name, st.tag_value>>), exc |-> "none"]
        ELSE [pairs |-> st.yielded, exc |-> st.exc]

\* the parser has not run yet
NotParsed == [pairs |-> <<>>, exc |-> "pending"]

\* {}
EmptyDict == [x \in {} |-> <<>>]

RECURSIVE DictOf(_)
\* dict(pairs): a later pair replaces an earlier one with the same key
DictOf(pairs) ==
    IF pairs = <<>> THEN EmptyDict
    ELSE LET n == Len(pairs)
             d == DictOf(SubSeq(pairs, 1, n - 1))
             k == pairs[n][1]
         IN  [x \in DOMAIN d \cup {k} |-> IF x = k THEN pairs[n][2] ELSE d[x]]

\* _load_tag_file(tag_file_name): dict(_parse_tags(tag_file))
LoadTagFile(lines) ==
    LET p == ParseTags(lines)
    IN  [tags |-> IF p.exc = "none" THEN DictOf(p.pairs) ELSE EmptyDict, exc |-> p.exc]

-----------------------------------------------------------------------------
(* Paths *)

SEP == "/"

RECURSIVE Split(_, _)
\* s.split(c)
Split(s, c) ==
    LET i == Find(s, c)
    IN  IF i = 0 THEN <<s>>
        ELSE <<SubSeq(s, 1, i - 1)>> \o Split(SubSeq(s, i + 1, Len(s)), c)

RECURSIVE Join(_, _)
\* c.join(parts)
Join(parts, c) ==
    IF parts = <<>> THEN <<>>
    ELSE IF Len(parts) = 1 THEN parts[1]
    ELSE parts[1] \o <<c>> \o Join(Tail(parts), c)

RECURSIVE Replace(_, _, _)
\* s.replace(c, d) for single tokens c and d
Replace(s, c, d) ==
    IF s = <<>> THEN <<>>
    ELSE <<IF Head(s) = c THEN d ELSE Head(s)>> \o Replace(Tail(s), c, d)

\* s.startswith(prefix)
StartsWith(s, prefix) ==
    Len(s) >= Len(prefix) /\ SubSeq(s, 1, Len(prefix)) = prefix

RECURSIVE ReplaceFirst(_, _)
\* s.replace(old, "", 1): the first occurrence of old is removed
ReplaceFirst(s, old) ==
    IF s = <<>> THEN <<>>
    ELSE IF StartsWith(s, old) THEN SubSeq(s, Len(old) + 1, Len(s))
    ELSE <<Head(s)>> \o ReplaceFirst(Tail(s), old)

CurDir == <<".">>
ParDir == <<".", ".">>

RECURSIVE NormComps(_, _, _)
\* the loop of posixpath.normpath over the components of a path
NormComps(comps, initial_slashes, new_comps) ==
    IF comps = <<>> THEN new_comps
    ELSE LET comp == Head(comps)
             n == Len(new_comps)
         IN  IF comp = <<>> \/ comp = CurDir
             THEN NormComps(Tail(comps), initial_slashes, new_comps)
             ELSE IF \/ comp # ParDir
                     \/ (initial_slashes = 0 /\ n = 0)
                     \/ (n > 0 /\ new_comps[n] = ParDir)
             THEN NormComps(Tail(comps), initial_slashes, Append(new_comps, comp))
             ELSE IF n > 0
             THEN NormComps(Tail(comps), initial_slashes, SubSeq(new_comps, 1, n - 1))
             ELSE NormComps(Tail(comps), initial_slashes, new_comps)

\* os.path.normpath(path), with "/" the path separator
NormPath(path) ==
    LET initial_slashes ==
            IF ~StartsWith(path, <<SEP>>) THEN 0
            ELSE IF StartsWith(path, <<SEP, SEP>>) /\ ~StartsWith(path, <<SEP, SEP, SEP>>)
            THEN 2 ELSE 1
        joined == Join(NormComps(Split(path, SEP), initial_slashes, <<>>), SEP)
        out == [i \in 1..initial_slashes |-> SEP] \o joined
    IN  IF path = <<>> THEN CurDir
        ELSE IF out = <<>> THEN CurDir ELSE out

\* os.path.join(a, b), with "/" the path separator
PathJoin(a, b) ==
    IF StartsWith(b, <<SEP>>) THEN b
    ELSE IF a = <<>> \/ a[Len(a)] = SEP THEN a \o b
    ELSE a \o <<SEP>> \o b

-----------------------------------------------------------------------------
(* The filesystem *)

\* a file that does not exist, and a file with its lines
Absent == [exists |-> FALSE, lines |-> <<>>]
FileOf(lines) == [exists |-> TRUE, lines |-> lines]

\* what a payload file can hold
Contents == {"c0", "cx", "cy"}

\* st_size of a file holding c
SizeOf(c) == IF c = "c0" THEN 0 ELSE 1

\* hashlib.new(alg) fed the whole of c, hexdigest(): distinct contents have
\* distinct digests; those of cx and cy differ in one character
HexDigest(alg, c) ==
    IF alg = "md5"
    THEN (IF c = "c0" THEN <<"d", "4">> ELSE IF c = "cx" THEN <<"9", "d">> ELSE <<"9", "e">>)
    ELSE (IF c = "c0" THEN <<"a", "3">> ELSE IF c = "cx" THEN <<"8", "6">> ELSE <<"8", "7">>)

\* the path of the bag, as given to Bag()
BagRoot == <<"bag">>

\* The payload on disk: files is a set of [at, content], at being the names from
\* data/ down to the file (<<d, b>> is data/d/b).  The path string of such a file,
\* relative to the directory holding data/:
RelPathOf(at) == <<"data", SEP>> \o Join(at, SEP)

\* What a path string names on disk, once the system has resolved it: the
\* payload file [found |-> TRUE, content], or nothing.  (Paths that name a
\* directory are not modelled.)
Lookup(d, full_path) ==
    LET comps == Split(NormPath(full_path), SEP)
        below == SubSeq(comps, 3, Len(comps))
    IN  IF /\ d.dataDir /\ Len(comps) > 2
           /\ comps[1] = BagRoot /\ comps[2] = <<"data">>
           /\ \E f \in d.files : f.at = below
        THEN [found |-> TRUE, content |-> (CHOOSE f \in d.files : f.at = below).content]
        ELSE [found |-> FALSE, content |-> "c0"]

-----------------------------------------------------------------------------
(* The Bag object *)

\* checksum_algos
ChecksumAlgos == <<"md5", "sha1">>

VersionTag == <<"BagIt-Version">>
EncodingTag == <<"Tag-File-Character-Encoding">>
OxumTag == <<"Payload-Oxum">>

\* s.lower(), of the strings the model holds
Lower(s) == [i \in 1..Len(s) |-> IF s[i] = "UTF-8" THEN "utf-8" ELSE s[i]]

\* the body of the loop of _load_manifests over the lines of the alg manifest
LoadManifestLine(entries, alg, line0) ==
    LET line == Strip(line0)
        entry == SplitWs(line, 1)
    IN  \* Ignore blank lines and comments.
        IF line = <<>> \/ Head(line) = "#" THEN entries
        \* Format is FILENAME *CHECKSUM
        ELSE IF Len(entry) # 2 THEN entries
        ELSE LET entry_hash == entry[1]
                 entry_path == NormPath(LStripChars(entry[2], {"*"}))
             IN  IF entry_path \in DOMAIN entries
                 THEN [entries EXCEPT ![entry_path] =
                          [a \in DOMAIN @ \cup {alg} |-> IF a = alg THEN entry_hash ELSE @[a]]]
                 ELSE [q \in DOMAIN entries \cup {entry_path} |->
                          IF q = entry_path THEN [a \in {alg} |-> entry_hash]
                          ELSE entries[q]]

RECURSIVE LoadManifestLines(_, _, _)
LoadManifestLines(entries, alg, lines) ==
    IF lines = <<>> THEN entries
    ELSE LoadManifestLines(LoadManifestLine(entries, alg, Head(lines)), alg, Tail(lines))

\* manifest_files(): the algorithms whose manifest-<alg>.txt is a file
ManifestFiles(d) == SelectSeq(ChecksumAlgos, LAMBDA a : d.manifests[a].exists)

RECURSIVE LoadManifestsOf(_, _, _)
LoadManifestsOf(d, algs, entries) ==
    IF algs = <<>> THEN entries
    ELSE LoadManifestsOf(d, Tail(algs),
             LoadManifestLines(entries, Head(algs), d.manifests[Head(algs)].lines))

\* _load_manifests(): algs and entries
LoadManifests(d) ==
    [algs |-> ManifestFiles(d),
     entries |-> LoadManifestsOf(d, ManifestFiles(d), EmptyDict)]

\* Bag(path), __init__: no tags, no info, no entries, no algs
NewBag ==
    [path |-> BagRoot, tags |-> EmptyDict, info |-> EmptyDict,
     entries |-> EmptyDict, algs |-> <<>>, exc |-> "none"]

\* _open, from the info file on: i is what _load_tag_file gives for it
OpenInfo(tags, hasInfo, i, m) ==
    IF hasInfo /\ i.exc # "none" THEN [NewBag EXCEPT !.exc = i.exc]
    ELSE [NewBag EXCEPT !.tags = tags,
                        !.info = IF hasInfo THEN i.tags ELSE EmptyDict,
                        !.entries = m.entries, !.algs = m.algs]

\* _open, from the required tags on: infoFile is the file named tag_file_name
\* (package-info.txt, of version 0.95, is on no disk of the model)
OpenVersion(d, tags, version, encoding, infoFile) ==
    IF version \notin {<<"0.95">>, <<"0.96">>} THEN [NewBag EXCEPT !.exc = "BagError"]
    ELSE IF Lower(encoding) # <<"utf-8">>
    THEN [NewBag EXCEPT !.exc = "BagValidationError"]
    ELSE OpenInfo(tags, infoFile.exists, LoadTagFile(infoFile.lines), LoadManifests(d))

\* _open, t being what _load_tag_file gives for bagit.txt
OpenTags(d, t) ==
    IF t.exc # "none" THEN [NewBag EXCEPT !.exc = t.exc]
    ELSE IF ~({VersionTag, EncodingTag} \subseteq DOMAIN t.tags)
    THEN [NewBag EXCEPT !.exc = "BagError"]
    ELSE OpenVersion(d, t.tags, t.tags[VersionTag], t.tags[EncodingTag],
                     IF t.tags[VersionTag] = <<"0.96">> THEN d.info ELSE Absent)

\* Bag(path): __init__ and _open; exc is the exception that ended the constructor
BagOpen(d) ==
    IF ~d.bagit.exists THEN [NewBag EXCEPT !.exc = "BagError"]
    ELSE OpenTags(d, LoadTagFile(d.bagit.lines))

\* payload_files(), for the file at `at`: the path it is reported under
PayloadPath(path, at) ==
    LET n == Len(at)
        \* os.walk(payload_dir): dirpath is payload_dir joined with the directories
        dirpath == Join(<<PathJoin(path, <<"data">>)>> \o SubSeq(at, 1, n - 1), SEP)
        f == at[n]
        rel_path == PathJoin(dirpath, NormPath(Replace(f, "\\", SEP)))
    IN  ReplaceFirst(rel_path, path \o <<SEP>>)

\* set(self.payload_files())
PayloadFiles(b, d) ==
    IF d.dataDir THEN {PayloadPath(b.path, f.at) : f \in d.files} ELSE {}

\* compare_manifests_with_fs(): (only in manifests, only on filesystem)
CompareManifestsWithFs(b, d) ==
    LET files_on_fs == PayloadFiles(b, d)
        files_in_manifest == DOMAIN b.entries
    IN  <<files_in_manifest \ files_on_fs, files_on_fs \ files_in_manifest>>

RECURSIVE FetchLoop(_, _)
\* fetch_entries(): (parts[0], parts[1], parts[2]) of every line of fetch.txt
FetchLoop(lines, got) ==
    IF lines = <<>> THEN [entries |-> got, exc |-> "none"]
    ELSE LET parts == SplitWs(Strip(Head(lines)), 2)
         IN  IF Len(parts) < 3 THEN [entries |-> got, exc |-> "IndexError"]
             ELSE FetchLoop(Tail(lines), Append(got, <<parts[1], parts[2], parts[3]>>))

FetchEntries(d) ==
    IF d.fetch.exists THEN FetchLoop(d.fetch.lines, <<>>)
    ELSE [entries |-> <<>>, exc |-> "none"]

\* files_to_be_fetched(): for f, size, path in self.fetch_entries(): yield f
FilesToBeFetched(d) ==
    {FetchEntries(d).entries[i][1] : i \in 1..Len(FetchEntries(d).entries)}

\* compare_fetch_with_fs()
CompareFetchWithFs(b, d) ==
    [value |-> IF FetchEntries(d).exc = "none"
               THEN FilesToBeFetched(d) \ PayloadFiles(b, d) ELSE {},
     exc |-> FetchEntries(d).exc]

-----------------------------------------------------------------------------
(* Validation *)

NoError == [exc |-> "none", msg |-> "none"]
Raise(e, m) == [exc |-> e, msg |-> m]

\* _validate_structure(): the payload directory, then the tag files
ValidateStructure(d) ==
    IF ~d.dataDir THEN Raise("BagValidationError", "Missing data directory")
    ELSE IF Len(ManifestFiles(d)) = 0
    THEN Raise("BagValidationError", "Missing manifest file")
    ELSE IF ~d.bagit.exists THEN Raise("BagValidationError", "Missing bagit.txt")
    ELSE NoError

\* _validate_bagittxt(): the first line of bagit.txt must not start with a BOM
ValidateBagittxt(d) ==
    LET first_line == IF d.bagit.lines = <<>> THEN <<>> ELSE d.bagit.lines[1]
    IN  IF ~d.bagit.exists THEN Raise("IOError", "bagit.txt")
        ELSE IF StartsWith(first_line, <<BOM>>)
        THEN Raise("BagValidationError", "bagit.txt must not contain a byte-order mark")
        ELSE NoError

\* has_oxum()
HasOxum(b) == OxumTag \in DOMAIN b.info

DigitValue(c) ==
    CASE c = "0" -> 0 [] c = "1" -> 1 [] c = "2" -> 2 [] c = "3" -> 3 [] c = "4" -> 4
      [] c = "5" -> 5 [] c = "6" -> 6 [] c = "7" -> 7 [] c = "8" -> 8 [] c = "9" -> 9

RECURSIVE ToLong(_)
\* long(s) of a string of digits
ToLong(s) ==
    IF s = <<>> THEN 0 ELSE 10 * ToLong(SubSeq(s, 1, Len(s) - 1)) + DigitValue(s[Len(s)])

RECURSIVE SumSizes(_, _, _)
\* total_bytes += os.stat(payload_file).st_size, over the files walked
SumSizes(b, d, files) ==
    IF files = {} THEN 0
    ELSE LET f == CHOOSE g \in files : TRUE
         IN  SizeOf(Lookup(d, PathJoin(b.path, PayloadPath(b.path, f.at))).content)
             + SumSizes(b, d, files \ {f})

\* _validate_oxum(); ran says whether the payload was counted, and found and
\* expected are the (bytes, files) of the error message
ValidateOxum(b, d) ==
    LET oxum == b.info[OxumTag]
        parts == SplitOnce(oxum, ".")
        byte_count == ToLong(parts[1])
        file_count == ToLong(parts[2])
        walked == IF d.dataDir THEN d.files ELSE {}
        \* os.stat(payload_file) of a path that names nothing is an OSError
        lost == \E f \in walked :
                    ~Lookup(d, PathJoin(b.path, PayloadPath(b.path, f.at))).found
        total_bytes == SumSizes(b, d, walked)
        total_files == Cardinality(walked)
        skip == [exc |-> "none", msg |-> "none", ran |-> FALSE,
                 found |-> <<0, 0>>, expected |-> <<0, 0>>]
    IN  IF ~HasOxum(b) THEN skip
        \* byte_count, file_count = oxum.split('.', 1)
        ELSE IF Len(parts) < 2 THEN [skip EXCEPT !.exc = "ValueError"]
        ELSE IF ~IsDigitStr(parts[1]) \/ ~IsDigitStr(parts[2])
        THEN [skip EXCEPT !.exc = "BagError", !.msg = "Invalid oxum"]
        ELSE IF lost THEN [skip EXCEPT !.exc = "OSError", !.ran = TRUE]
        ELSE IF file_count # total_files \/ byte_count # total_bytes
        THEN [exc |-> "BagValidationError", msg |-> "Oxum error", ran |-> TRUE,
              found |-> <<total_bytes, total_files>>,
              expected |-> <<byte_count, file_count>>]
        ELSE [skip EXCEPT !.ran = TRUE]

\* a discrepancy as it is named in the error: a path alone, or a path and the
\* algorithm whose digest does not match
PathError(path) == [path |-> path, alg |-> "none"]
HashError(full_path, alg) == [path |-> full_path, alg |-> alg]

\* _calculate_file_hashes(full_path, f_hashers) of an existing file
CalculateFileHashes(d, full_path, f_hashers) ==
    [alg \in f_hashers |-> HexDigest(alg, Lookup(d, full_path).content)]

RECURSIVE EntriesLoop(_, _, _, _, _, _)
\* for rel_path, hashes in self.entries.items(), in the order `order`
EntriesLoop(b, d, hashers, order, errs, done) ==
    IF order = <<>>
    THEN [exc |-> IF errs = {} THEN "none" ELSE "BagValidationError",
          msg |-> IF errs = {} THEN "none" ELSE "files failed checksum validation",
          errors |-> errs, hashed |-> done]
    ELSE LET rel_path == Head(order)
             hashes == b.entries[rel_path]
             full_path == PathJoin(b.path, rel_path)
             f_hashers == {alg \in hashers : alg \in DOMAIN hashes}
             f_hashes == CalculateFileHashes(d, full_path, f_hashers)
             bad == {HashError(full_path, alg) : alg \in
                        {a \in f_hashers : hashes[a] # f_hashes[a]}}
         IN  \* _calculate_file_hashes raises when the file does not exist,
             \* and _validate_entries raises it again
             IF ~Lookup(d, full_path).found
             THEN [exc |-> "BagValidationError", msg |-> "does not exist",
                   errors |-> {PathError(full_path)}, hashed |-> done]
             ELSE EntriesLoop(b, d, hashers, Tail(order), errs \cup bad,
                              done \cup {full_path})

\* _validate_entries(), the entries visited in the order `order`
ValidateEntries(b, d, order) ==
    LET cmp == CompareManifestsWithFs(b, d)
        errs == {PathError(q) : q \in cmp[1] \cup cmp[2]}
        \* hashlib.new knows every algorithm of checksum_algos
        hashers == {b.algs[i] : i \in 1..Len(b.algs)}
    IN  IF hashers = {}
        THEN [exc |-> "RuntimeError", msg |-> "none of the hash algorithms are supported",
              errors |-> {}, hashed |-> {}]
        ELSE EntriesLoop(b, d, hashers, order, errs, {})

\* Mutant of ContentsOutcome: the oxum is checked in fast mode only
ContentsOutcomeOxumOnlyWhenFast(isFast, hasOxum, o, e) ==
    IF isFast /\ ~hasOxum
    THEN [exc |-> "BagValidationError", msg |-> "Bag lacks a Payload-Oxum",
          errors |-> {}, hashed |-> {}, oxumRun |-> FALSE,
          found |-> <<0, 0>>, expected |-> <<0, 0>>]
    ELSE IF ~isFast
    THEN [exc |-> e.exc, msg |-> e.msg, errors |-> e.errors, hashed |-> e.hashed,
          oxumRun |-> FALSE, found |-> <<0, 0>>, expected |-> <<0, 0>>]
    ELSE [exc |-> o.exc, msg |-> o.msg, errors |-> {}, hashed |-> {},
          oxumRun |-> o.ran, found |-> o.found, expected |-> o.expected]

\* the body of _validate_contents(fast), o being what self._validate_oxum()
\* does and e what self._validate_entries() does
ContentsOutcome(isFast, hasOxum, o, e) ==
    IF isFast /\ ~hasOxum
    THEN [exc |-> "BagValidationError", msg |-> "Bag lacks a Payload-Oxum",
          errors |-> {}, hashed |-> {}, oxumRun |-> FALSE,
          found |-> <<0, 0>>, expected |-> <<0, 0>>]
    \* self._validate_oxum() # Fast
    ELSE IF o.exc # "none" \/ isFast
    THEN [exc |-> o.exc, msg |-> o.msg, errors |-> {}, hashed |-> {},
          oxumRun |-> o.ran, found |-> o.found, expected |-> o.expected]
    \* self._validate_entries() # *SLOW*
    ELSE [exc |-> e.exc, msg |-> e.msg, errors |-> e.errors, hashed |-> e.hashed,
          oxumRun |-> o.ran, found |-> o.found, expected |-> o.expected]

\* _validate_contents(fast)
ValidateContents(b, d, isFast, order) ==
    ContentsOutcome(isFast, HasOxum(b), ValidateOxum(b, d), ValidateEntries(b, d, order))

\* the orders in which the keys of a dict can come out of items()
Orders(S) ==
    {o \in [1..Cardinality(S) -> S] : \A i, j \in 1..Cardinality(S) : i # j => o[i] # o[j]}

-----------------------------------------------------------------------------
(* The validate call *)

NoOutcome ==
    [exc |-> "none", msg |-> "none", errors |-> {}, found |-> <<0, 0>>,
     expected |-> <<0, 0>>]

\* an exception of a phase that names no entries
OutcomeOf(r) == [NoOutcome EXCEPT !.exc = r.exc, !.msg = r.msg]

Phases == <<"structure", "bagittxt", "contents">>

\* Mutant of AfterPhase: a failed structure check does not stop the call
AfterPhaseGoesOn(phase, e) ==
    IF phase = "structure" THEN "bagittxt"
    ELSE IF e # "none" THEN "raised"
    ELSE IF phase = "bagittxt" THEN "contents"
    ELSE "returned"

\* validate(): the three calls in a row, an exception leaving the method at
\* once, and return True after the last
AfterPhase(phase, e) ==
    IF e # "none" THEN "raised"
    ELSE IF phase = "structure" THEN "bagittxt"
    ELSE IF phase = "bagittxt" THEN "contents"
    ELSE "returned"

\* bag.validate(fast=f) is called
ValidateCall(f) ==
    /\ pc = "idle"
    /\ pc' = "structure"
    /\ fast' = f
    /\ UNCHANGED <<tagVars, bagVars, started, outcome, hashed, oxumRun, result, src>>

\* self._validate_structure()
StructurePhase ==
    /\ pc = "structure"
    /\ started' = Append(started, "structure")
    /\ outcome' = OutcomeOf(ValidateStructure(disk))
    /\ pc' = AfterPhase("structure", outcome'.exc)
    /\ UNCHANGED <<tagVars, bagVars, fast, hashed, oxumRun, result, src>>

\* self._validate_bagittxt()
BagittxtPhase ==
    /\ pc = "bagittxt"
    /\ started' = Append(started, "bagittxt")
    /\ outcome' = OutcomeOf(ValidateBagittxt(disk))
    /\ pc' = AfterPhase("bagittxt", outcome'.exc)
    /\ UNCHANGED <<tagVars, bagVars, fast, hashed, oxumRun, result, src>>

\* self._validate_contents(fast=fast)
ContentsPhase ==
    /\ pc = "contents"
    /\ started' = Append(started, "contents")
    /\ \E order \in Orders(DOMAIN bag.entries) :
          \E r \in {ValidateContents(bag, disk, fast, order)} :
              /\ outcome' = [exc |-> r.exc, msg |-> r.msg, errors |-> r.errors,
                             found |-> r.found, expected |-> r.expected]
              /\ hashed' = r.hashed
              /\ oxumRun' = r.oxumRun
    /\ pc' = AfterPhase("contents", outcome'.exc)
    /\ UNCHANGED <<tagVars, bagVars, fast, result, src>>

\* bagit.txt is removed from the bag directory after the bag was loaded
RemoveBagitTxt ==
    /\ pc = "idle"
    /\ disk.bagit.exists
    /\ disk' = [disk EXCEPT !.bagit = Absent]
    /\ UNCHANGED <<tagVars, bag, callVars, result, src>>

\* class BagError(Exception), class BagValidationError(BagError)
BagErrors == {"BagError", "BagValidationError"}

\* the exception validate() ends with ("none" when it returns True), s, t and
\* c being what its three calls do
ValidateOutcome(s, t, c) ==
    IF s.exc # "none" THEN s.exc
    ELSE IF t.exc # "none" THEN t.exc
    ELSE c.exc

\* validate(fast), the entries visited in the order `order`
Validate(b, d, isFast, order) ==
    ValidateOutcome(ValidateStructure(d), ValidateBagittxt(d),
                    ValidateContents(b, d, isFast, order))

\* is_valid(): True when validate returned, False when it raised a BagError;
\* any other exception leaves is_valid
IsValidOf(e) ==
    IF e = "none" THEN [op |-> "is_valid", value |-> TRUE, exc |-> "none"]
    ELSE IF e \in BagErrors THEN [op |-> "is_valid", value |-> FALSE, exc |-> "none"]
    ELSE [op |-> "is_valid", value |-> FALSE, exc |-> e]

\* bag.is_valid(fast=f) is called
DoIsValid(f) ==
    /\ pc = "idle"
    /\ result.op = "none"
    /\ pc' = "done"
    /\ fast' = f
    /\ \E order \in Orders(DOMAIN bag.entries) :
          result' = IsValidOf(Validate(bag, disk, f, order))
    /\ UNCHANGED <<tagVars, bagVars, started, outcome, hashed, oxumRun, src>>

-----------------------------------------------------------------------------
(* The bag directories of the model *)

MaxFiles == 2

NameA == <<"a">>
NameB == <<"b">>
NameD == <<"d">>
NameABackslashB == <<"a", "\\", "b">>

\* where a payload file can be: data/a, data/d/b and data/a\b
FilePlaces == {<<NameA>>, <<NameD, NameB>>, <<NameABackslashB>>}

\* the payloads: at most MaxFiles files, no two at the same place
Payloads ==
    {fs \in SUBSET [at : FilePlaces, content : Contents] :
        /\ Cardinality(fs) <= MaxFiles
        /\ \A f, g \in fs : f.at = g.at => f = g}

\* "%s  %s\n" % (digest, filename)
ManifestLine(digest, filename) == digest \o <<" ", " ">> \o filename \o <<NL>>

\* the manifests of alg that list some of `paths`, in that order, each with the
\* digest of one of `contents`
ManifestsOver(alg, paths, contents) ==
    {LET lines == [i \in 1..Len(paths) |-> ManifestLine(HexDigest(alg, c[i]), paths[i])]
         kept == SelectSeq([i \in 1..Len(paths) |-> i], LAMBDA i : c[i] # "-")
     IN  [k \in 1..Len(kept) |-> lines[kept[k]]] :
     c \in [1..Len(paths) -> contents \cup {"-"}]}

\* bagit.txt as make_bag writes it
BagitTxt ==
    << <<"BagIt-Version", ":", " ", "0.96", NL>>,
       <<"Tag-File-Character-Encoding", ":", " ", "UTF-8", NL>> >>

BagitFiles == {FileOf(BagitTxt), FileOf(<<<<BOM>> \o BagitTxt[1], BagitTxt[2]>>)}

\* "%s: %s\n" % (h, bag_info[h])
TagLine(h, v) == h \o <<":", " ">> \o v \o <<NL>>

OxumValues ==
    {<<"0", ".", "1">>, <<"1", ".", "1">>, <<"2", ".", "2">>, <<"1", ".", "x">>, <<"1">>}

InfoFiles ==
    {Absent, FileOf(<<>>)} \cup {FileOf(<<TagLine(OxumTag, v)>>) : v \in OxumValues}

NoDisk ==
    [bagit |-> Absent, info |-> Absent, manifests |-> [a \in {"md5", "sha1"} |-> Absent],
     fetch |-> Absent, dataDir |-> FALSE, files |-> {}]

NoResult == [op |-> "none", value |-> <<{}, {}>>, exc |-> "none"]
\* make_bag is not called
NoSrc == [isdir |-> FALSE, files |-> {}, bag_info |-> EmptyDict]

Init ==
    /\ \E bg \in BagitFiles, inf \in InfoFiles, pl \in Payloads, dd \in BOOLEAN,
          m5 \in {Absent} \cup {FileOf(m) : m \in ManifestsOver("md5",
                    <<RelPathOf(<<NameA>>), RelPathOf(<<NameD, NameB>>),
                      RelPathOf(<<NameABackslashB>>)>>, {"c0", "cx"})},
          s1 \in {Absent, FileOf(<<ManifestLine(HexDigest("sha1", "cx"),
                                                 RelPathOf(<<NameA>>))>>)} :
          /\ dd \/ pl = {}
          /\ disk = [bagit |-> bg, info |-> inf,
                     manifests |-> [a \in {"md5", "sha1"} |-> IF a = "md5" THEN m5 ELSE s1],
                     fetch |-> Absent, dataDir |-> dd, files |-> pl]
    /\ bag = BagOpen(disk)
    /\ bag.exc = "none"
    /\ pc = "idle" /\ fast = FALSE /\ started = <<>> /\ outcome = NoOutcome
    /\ hashed = {} /\ oxumRun = FALSE
    /\ tagFile = <<>> /\ parsed = NotParsed
    /\ result = NoResult /\ src = NoSrc

Next ==
    \/ \E f \in BOOLEAN : ValidateCall(f)
    \/ StructurePhase
    \/ BagittxtPhase
    \/ ContentsPhase
    \/ RemoveBagitTxt
    \/ \E f \in BOOLEAN : DoIsValid(f)

Spec == Init /\ [][Next]_vars

-----------------------------------------------------------------------------
(* Claims about validate *)

\* the call is over
Finished == pc \in {"returned", "raised"}

\* the paths of the payload files that are on disk
FilesOnDisk(d) == IF d.dataDir THEN {RelPathOf(f.at) : f \in d.files} ELSE {}

\* C1: validate starts its phases in the order structure, declaration sanity,
\* contents, whatever fast is; a phase is started only when every phase before
\* it passed, the call is over as soon as a phase raises, and it returns
\* (True) only after all three phases ran without raising
C1_PhasesInOrder ==
    /\ \E n \in 0..Len(Phases) : started = SubSeq(Phases, 1, n)
    /\ Len(started) >= 2 => ValidateStructure(disk).exc = "none"
    /\ Len(started) >= 3 => ValidateBagittxt(disk).exc = "none"
    /\ outcome.exc # "none" => pc = "raised"
    /\ pc = "raised" => outcome.exc # "none" /\ started # <<>>
    /\ pc = "returned" => outcome.exc = "none" /\ started = Phases

\* C1 witness: a fast call that the declaration check ended, contents never started
C1_Witness ==
    /\ fast /\ pc = "raised" /\ started = <<"structure", "bagittxt">>
    /\ outcome.msg = "bagit.txt must not contain a byte-order mark"

\* the digests of the entries whose file is there that do not match
MismatchesOf(b, d) ==
    {HashError(PathJoin(b.path, q), alg) :
        <<q, alg>> \in {x \in (DOMAIN b.entries) \X {"md5", "sha1"} :
            /\ x[2] \in DOMAIN b.entries[x[1]]
            /\ Lookup(d, PathJoin(b.path, x[1])).found
            /\ b.entries[x[1]][x[2]] #
                   HexDigest(x[2], Lookup(d, PathJoin(b.path, x[1])).content)}}

\* the paths compare_manifests_with_fs reports, on either side
PathErrorsOf(b, d) ==
    {PathError(q) : q \in CompareManifestsWithFs(b, d)[1] \cup CompareManifestsWithFs(b, d)[2]}

\* what a set of discrepancies names: paths from the bag directory, algorithms
Named(b, errs) ==
    {[path |-> ReplaceFirst(e.path, b.path \o <<SEP>>), alg |-> e.alg] : e \in errs}

\* no payload file has a backslash in its name
PlainNames(d) ==
    \A f \in d.files : \A i \in 1..Len(f.at) : \A k \in 1..Len(f.at[i]) :
        f.at[i][k] # "\\"

\* the full-mode call got as far as comparing the entries
EntriesChecked ==
    /\ Finished /\ ~fast /\ started = Phases
    /\ ValidateOxum(bag, disk).exc = "none"

\* C2: in full mode the contents check ends with no error when there is no
\* discrepancy, and otherwise with one error that lists every path on one side
\* only and every digest that does not match, also when a listed file is missing
C2_EveryDiscrepancyListed ==
    (EntriesChecked /\ PlainNames(disk)) =>
        LET all == PathErrorsOf(bag, disk) \cup MismatchesOf(bag, disk)
        IN  IF all = {} THEN outcome.exc = "none"
            ELSE /\ outcome.exc = "BagValidationError"
                 /\ Named(bag, outcome.errors) = Named(bag, all)

\* the oxum of the payload on disk: (bytes, files)
OxumOnDisk(d) ==
    LET fs == IF d.dataDir THEN d.files ELSE {}
        sizes == [f \in fs |-> SizeOf(f.content)]
        Sum[S \in SUBSET fs] ==
            IF S = {} THEN 0
            ELSE LET f == CHOOSE g \in S : TRUE IN sizes[f] + Sum[S \ {f}]
    IN  <<Sum[fs], Cardinality(fs)>>

\* the bag is as it was made: the manifests list the payload files and no
\* other path, bagit.txt has no byte-order mark, and the oxum, if any, is that
\* of the payload
Unmodified(b, d) ==
    /\ ValidateStructure(d).exc = "none"
    /\ ValidateBagittxt(d).exc = "none"
    /\ DOMAIN b.entries = FilesOnDisk(d)
    /\ HasOxum(b) =>
          /\ Len(SplitOnce(b.info[OxumTag], ".")) = 2
          /\ IsDigitStr(SplitOnce(b.info[OxumTag], ".")[1])
          /\ IsDigitStr(SplitOnce(b.info[OxumTag], ".")[2])
          /\ << ToLong(SplitOnce(b.info[OxumTag], ".")[1]),
                ToLong(SplitOnce(b.info[OxumTag], ".")[2]) >> = OxumOnDisk(d)

\* the stored digests that differ from the digest of the file they are for
WrongDigests(b, d) ==
    {x \in (DOMAIN b.entries) \X {"md5", "sha1"} :
        /\ x[2] \in DOMAIN b.entries[x[1]]
        /\ \E f \in d.files :
              /\ RelPathOf(f.at) = x[1]
              /\ b.entries[x[1]][x[2]] # HexDigest(x[2], f.content)}

\* C3: full-mode validation of an unmodified bag succeeds, and with one stored
\* digest changed it fails with an error naming that path and algorithm alone
C3_FullModeNamesTheChangedDigest ==
    (Finished /\ ~fast /\ Unmodified(bag, disk)) =>
        /\ WrongDigests(bag, disk) = {} => pc = "returned"
        /\ \A x \in WrongDigests(bag, disk) :
              WrongDigests(bag, disk) = {x} =>
                  /\ outcome.exc = "BagValidationError"
                  /\ outcome.errors = {HashError(PathJoin(bag.path, x[1]), x[2])}

\* the bag-info has a Payload-Oxum of the form <digits>.<digits>
OxumWellFormed(b) ==
    /\ HasOxum(b)
    /\ \E i \in 1..Len(b.info[OxumTag]) :
          /\ b.info[OxumTag][i] = "."
          /\ IsDigitStr(SubSeq(b.info[OxumTag], 1, i - 1))
          /\ IsDigitStr(SubSeq(b.info[OxumTag], i + 1, Len(b.info[OxumTag])))

\* the fast-mode call got as far as the contents phase
FastContentsRan == Finished /\ fast /\ started = Phases

\* C4: the fast contents check fails when there is no Payload-Oxum; with a
\* Payload-Oxum <bytes>.<files> it succeeds exactly when these are the bytes
\* and the number of the files under data/, and fails otherwise with an error
\* that carries the found and the expected values
C4_FastModeComparesOxum ==
    FastContentsRan =>
        /\ ~HasOxum(bag) => outcome.exc = "BagValidationError"
        /\ OxumWellFormed(bag) =>
              LET parts == SplitOnce(bag.info[OxumTag], ".")
                  declared == <<ToLong(parts[1]), ToLong(parts[2])>>
              IN  IF declared = OxumOnDisk(disk) THEN pc = "returned"
                  ELSE /\ outcome.exc = "BagValidationError"
                       /\ outcome.msg = "Oxum error"
                       /\ outcome.found = OxumOnDisk(disk)
                       /\ outcome.expected = declared

\* C5 as stated: a fast call recomputes no digest, and a full call never
\* compares the oxum with the payload
C5_ModesExclusive ==
    Finished => /\ fast => hashed = {}
                /\ ~fast => ~oxumRun

\* C5 as amended: a fast call recomputes no digest and returns only after the
\* oxum check; a full call runs the same oxum check whenever the bag-info has
\* a well-formed Payload-Oxum, and recomputes digests only when that check
\* did not raise
C5_FullModeChecksOxumFirst ==
    (Finished /\ started = Phases) =>
        /\ fast => hashed = {} /\ (pc = "returned" => oxumRun)
        /\ ~fast => /\ oxumRun <=> OxumWellFormed(bag)
                    /\ hashed # {} => ValidateOxum(bag, disk).exc = "none"
                    /\ ValidateOxum(bag, disk).exc # "none" =>
                          outcome.exc = ValidateOxum(bag, disk).exc

\* C5 witness: a full-mode call that failed on the oxum, no digest recomputed
C5_Witness ==
    /\ pc = "raised" /\ ~fast /\ started = Phases
    /\ oxumRun /\ outcome.msg = "Oxum error" /\ hashed = {}
    /\ DOMAIN bag.entries # {}

\* validate(fast) of the bag as it is would return True
WouldValidate(b, d, isFast) ==
    \E order \in Orders(DOMAIN b.entries) : Validate(b, d, isFast, order) = "none"

\* C11: is_valid never lets an exception through, and returns True exactly
\* when validate would return True
C11_IsValidIsBoolean ==
    result.op = "is_valid" =>
        /\ result.exc = "none"
        /\ result.value = WouldValidate(bag, disk, fast)

\* C11 with only the exceptions that are BagErrors: is_valid returns True
\* exactly when validate would return True, False when validate would raise a
\* BagError, and lets every other exception of validate through
C11_IsValidCatchesBagErrors ==
    result.op = "is_valid" =>
        \A order \in Orders(DOMAIN bag.entries) :
            LET e == Validate(bag, disk, fast, order)
            IN  /\ result.exc = (IF e \in BagErrors \cup {"none"} THEN "none" ELSE e)
                /\ result.exc = "none" => result.value = (e = "none")

\* C3 and C4 hold of every bag of the model whose payload names have no backslash
C3_HoldsForPlainNames == PlainNames(disk) => C3_FullModeNamesTheChangedDigest
C4_HoldsForPlainNames == PlainNames(disk) => C4_FastModeComparesOxum

-----------------------------------------------------------------------------
(* The compare operations *)

\* bag.compare_manifests_with_fs() is called
DoCompareManifests ==
    /\ result.op = "none"
    /\ result' = [op |-> "manifests", value |-> CompareManifestsWithFs(bag, disk),
                  exc |-> "none"]
    /\ UNCHANGED <<tagVars, bagVars, callVars, src>>

\* bag.compare_fetch_with_fs() is called
DoCompareFetch ==
    /\ result.op = "none"
    /\ \E got \in {CompareFetchWithFs(bag, disk)} :
          result' = [op |-> "fetch", value |-> <<got.value, {}>>, exc |-> got.exc]
    /\ UNCHANGED <<tagVars, bagVars, callVars, src>>

\* "<url> <size-or-dash> <path>\n"
FetchLine(url, size, path) == url \o <<" ">> \o size \o <<" ">> \o path \o <<NL>>

FetchA == FetchLine(<<"http://h/a">>, <<"-">>, RelPathOf(<<NameA>>))
FetchB == FetchLine(<<"http://h/b">>, <<"1">>, RelPathOf(<<NameD, NameB>>))

FetchFiles ==
    {Absent, FileOf(<<>>), FileOf(<<FetchA>>), FileOf(<<FetchB>>),
     FileOf(<<FetchA, FetchB>>), FileOf(<<<<"http://h/a", NL>>>>)}

\* manifest paths, some of them not in normal form: data/a, ./data/d/b,
\* data//a, data/a\b and *data/d/../a
ComparePaths ==
    << RelPathOf(<<NameA>>),
       <<".", SEP>> \o RelPathOf(<<NameD, NameB>>),
       <<"data", SEP, SEP, "a">>,
       RelPathOf(<<NameABackslashB>>),
       <<"*", "data", SEP, "d", SEP, ".", ".", SEP, "a">> >>

InitCompare ==
    /\ \E pl \in Payloads, dd \in BOOLEAN, ft \in FetchFiles,
          m5 \in {FileOf(m) : m \in ManifestsOver("md5", ComparePaths, {"cx"})} :
          /\ dd \/ pl = {}
          /\ disk = [bagit |-> FileOf(BagitTxt), info |-> Absent,
                     manifests |-> [a \in {"md5", "sha1"} |-> IF a = "md5" THEN m5 ELSE Absent],
                     fetch |-> ft, dataDir |-> dd, files |-> pl]
    /\ bag = BagOpen(disk)
    /\ bag.exc = "none"
    /\ pc = "idle" /\ fast = FALSE /\ started = <<>> /\ outcome = NoOutcome
    /\ hashed = {} /\ oxumRun = FALSE
    /\ tagFile = <<>> /\ parsed = NotParsed
    /\ result = NoResult /\ src = NoSrc

NextCompare == DoCompareManifests \/ DoCompareFetch

SpecCompare == InitCompare /\ [][NextCompare]_vars

\* C6: compare_manifests_with_fs returns (M \ F, F \ M), M being the paths of
\* the loaded manifest entries and F the paths, from the bag directory, of the
\* files under data/
C6_CompareIsSetDifference ==
    result.op = "manifests" =>
        result.value = << (DOMAIN bag.entries) \ FilesOnDisk(disk),
                          FilesOnDisk(disk) \ (DOMAIN bag.entries) >>

\* C7: compare_fetch_with_fs returns the paths (third field) of the fetch
\* entries that no payload file is at
C7_FetchReturnsMissingPaths ==
    (result.op = "fetch" /\ result.exc = "none") =>
        result.value[1] =
            {FetchEntries(disk).entries[i][3] : i \in
                {k \in 1..Len(FetchEntries(disk).entries) :
                    FetchEntries(disk).entries[k][3] \notin PayloadFiles(bag, disk)}}

-----------------------------------------------------------------------------
(* make_bag *)

DigitChar(k) ==
    CASE k = 0 -> "0" [] k = 1 -> "1" [] k = 2 -> "2" [] k = 3 -> "3" [] k = 4 -> "4"
      [] k = 5 -> "5" [] k = 6 -> "6" [] k = 7 -> "7" [] k = 8 -> "8" [] k = 9 -> "9"

RECURSIVE Str(_)
\* "%s" % n, of a number that is not negative
Str(n) == IF n < 10 THEN <<DigitChar(n)>> ELSE Str(n \div 10) \o <<DigitChar(n % 10)>>

RECURSIVE SplitLines(_)
\* the lines a file holding `text` is read as: each up to and with its "\n"
SplitLines(text) ==
    LET i == Find(text, NL)
    IN  IF text = <<>> THEN <<>>
        ELSE IF i = 0 THEN <<text>>
        ELSE <<SubSeq(text, 1, i)>> \o SplitLines(SubSeq(text, i + 1, Len(text)))

DateTag == <<"Bagging-Date">>
AgentTag == <<"Bag-Software-Agent">>
ContactTag == <<"Contact-Name">>
SourceIdTag == <<"Source", ":", "Id">>

\* date.strftime(date.today(), "%Y-%m-%d")
Today == <<"2011-01-01">>

\* 'bagit.py <http://github.com/edsu/bagit>'
SoftwareAgent == <<"bagit.py", " ", "<http", ":", "//github.com/edsu/bagit>">>

\* headers.sort(): the keys of the model, in the order of their characters
SortedHeaders(keys) ==
    SelectSeq(<<AgentTag, DateTag, ContactTag, OxumTag, SourceIdTag>>,
              LAMBDA h : h \in keys)

\* _walk(data_dir): os.walk gives the files of a directory together and before
\* those of its subdirectories; the order is otherwise that of the listing
WalkOrders(files) ==
    {o \in Orders(files) :
        \A i, j \in 1..Len(o) : i < j =>
            /\ Len(o[i].at) <= Len(o[j].at)
            /\ \A k \in i..j :
                  SubSeq(o[i].at, 1, Len(o[i].at) - 1) = SubSeq(o[j].at, 1, Len(o[j].at) - 1)
                  => SubSeq(o[k].at, 1, Len(o[k].at) - 1) = SubSeq(o[i].at, 1, Len(o[i].at) - 1)}

\* _manifest_line(filename): (digest, filename, total_bytes)
ManifestLineOf(f) ==
    <<HexDigest("md5", f.content), RelPathOf(f.at), SizeOf(f.content)>>

RECURSIVE TotalBytes(_)
\* total_bytes += bytes, over the checksums
TotalBytes(checksums) ==
    IF checksums = <<>> THEN 0 ELSE Head(checksums)[3] + TotalBytes(Tail(checksums))

\* _make_manifest(), from manifest = open(...) on: the lines written, in the
\* order of checksums, and the oxum returned
WriteManifest(checksums) ==
    [lines |-> [i \in 1..Len(checksums) |->
                   ManifestLine(checksums[i][1], checksums[i][2])],
     oxum |-> Str(TotalBytes(checksums)) \o <<".">> \o Str(Len(checksums))]

\* checksums = map(_manifest_line, _walk(data_dir))
Map(walk) == [i \in 1..Len(walk) |-> ManifestLineOf(walk[i])]

\* _make_manifest() with processes <= 1: the lines written, in the order of
\* the walk, and the oxum returned
MakeManifest(walk) == WriteManifest(Map(walk))

\* no Bag object: Bag() of a directory without bagit.txt
NoBag == [NewBag EXCEPT !.exc = "BagError"]

\* the bag directory once make_bag has written its files, Oxum and lines being
\* what _make_manifest returned and wrote
Written(s, Oxum, lines) ==
    LET bag_info ==
            [h \in DOMAIN s.bag_info \cup {DateTag, OxumTag, AgentTag} |->
                IF h = DateTag THEN Today
                ELSE IF h = OxumTag THEN Oxum
                ELSE IF h = AgentTag THEN SoftwareAgent
                ELSE s.bag_info[h]]
        headers == SortedHeaders(DOMAIN s.bag_info \cup {DateTag, OxumTag, AgentTag})
    IN  [bagit |-> FileOf(BagitTxt),
         info |-> FileOf(SplitLines(Concat([i \in 1..Len(headers) |->
                                     TagLine(headers[i], bag_info[headers[i]])]))),
         manifests |-> [a \in {"md5", "sha1"} |-> IF a = "md5" THEN FileOf(lines) ELSE Absent],
         fetch |-> Absent, dataDir |-> TRUE, files |-> s.files]

\* return Bag(bag_dir)
Returned(written, b) == [exc |-> b.exc, disk |-> written, bag |-> b]

\* the end of make_bag: Bag(bag_dir) of the directory as written
MakeBagOf(written) == Returned(written, BagOpen(written))

\* the body of make_bag, man being what _make_manifest does
MakeBagWith(s, man) ==
    IF ~s.isdir THEN [exc |-> "RuntimeError", disk |-> NoDisk, bag |-> NoBag]
    \* os.mkdir('data') of a directory that has an entry of that name
    ELSE IF \E f \in s.files : f.at[1] = <<"data">>
    THEN [exc |-> "OSError", disk |-> NoDisk, bag |-> NoBag]
    ELSE MakeBagOf(Written(s, man.oxum, man.lines))

\* make_bag(bag_dir, bag_info) of a directory every entry of which can be read
\* and written, its files walked in the order `walk`: the exception raised
\* ("none" if none), the bag directory, and the Bag returned
MakeBag(s, walk) == MakeBagWith(s, MakeManifest(walk))

\* make_bag(bag_dir, bag_info) is called
DoMakeBag ==
    /\ result.op = "none"
    /\ \E walk \in WalkOrders(src.files) :
          \E made \in {MakeBag(src, walk)} :
              /\ disk' = made.disk
              /\ bag' = made.bag
              /\ result' = [op |-> "make_bag", value |-> <<{}, {}>>, exc |-> made.exc]
    /\ UNCHANGED <<tagVars, callVars, src>>

\* validate(fast=f) is called on the Bag that make_bag returned
ValidateMade(f) ==
    /\ result.op = "make_bag" /\ result.exc = "none"
    /\ ValidateCall(f)

NameData == <<"data">>

\* the directories handed to make_bag: files at a, d/b, a\b and data
SrcFiles ==
    {fs \in SUBSET [at : FilePlaces \cup {<<NameData>>}, content : Contents] :
        /\ Cardinality(fs) <= MaxFiles
        /\ \A f, g \in fs : f.at = g.at => f = g}

\* the bag_info arguments: None or {}, and the mappings of one key
BagInfos ==
    {EmptyDict} \cup
    {[h \in {k} |-> v] : k \in {ContactTag, OxumTag, SourceIdTag},
                         v \in {<<"v">>, <<"v", " ">>, <<"x", NL, "y">>}}

InitMake ==
    /\ \E dir \in BOOLEAN, fs \in SrcFiles, bi \in BagInfos :
          /\ dir \/ fs = {}
          /\ src = [isdir |-> dir, files |-> fs, bag_info |-> bi]
    /\ disk = NoDisk /\ bag = NoBag
    /\ pc = "idle" /\ fast = FALSE /\ started = <<>> /\ outcome = NoOutcome
    /\ hashed = {} /\ oxumRun = FALSE
    /\ tagFile = <<>> /\ parsed = NotParsed
    /\ result = NoResult

NextMake ==
    \/ DoMakeBag
    \/ \E f \in BOOLEAN : ValidateMade(f)
    \/ StructurePhase
    \/ BagittxtPhase
    \/ ContentsPhase

SpecMake == InitMake /\ [][NextMake]_vars

\* C10: make_bag of any directory, with any metadata, returns a Bag whose
\* entries are the files now under data/ with their md5 digests and whose info
\* has the caller's tags and the Payload-Oxum <bytes>.<files> of the payload;
\* validate of that Bag succeeds, fast or not
C10_MakeThenValidate ==
    (result.op = "make_bag" /\ src.isdir) =>
        /\ result.exc = "none"
        /\ DOMAIN bag.entries = FilesOnDisk(disk)
        /\ \A f \in disk.files :
              bag.entries[RelPathOf(f.at)] = [a \in {"md5"} |-> HexDigest("md5", f.content)]
        /\ \A h \in DOMAIN src.bag_info \ {OxumTag} :
              h \in DOMAIN bag.info /\ bag.info[h] = src.bag_info[h]
        /\ OxumTag \in DOMAIN bag.info
        /\ bag.info[OxumTag] =
              Str(OxumOnDisk(disk)[1]) \o <<".">> \o Str(OxumOnDisk(disk)[2])
        /\ Finished => pc = "returned"

\* C10 holds of the directories of the model with no entry named data and no
\* backslash in a name, given metadata whose keys have no ":" and whose values
\* have no newline and no space at either end
C10_HoldsForPlainInput ==
    (/\ \A f \in src.files : f.at[1] # NameData
     /\ PlainNames(src)
     /\ \A h \in DOMAIN src.bag_info :
           h # SourceIdTag /\ src.bag_info[h] = Strip(src.bag_info[h])
                           /\ Find(src.bag_info[h], NL) = 0)
    => C10_MakeThenValidate

-----------------------------------------------------------------------------
(* _make_manifest with a pool of workers *)

MaxProcesses == 2

\* a task of pool.map whose result has not come back
Pending == <<>>

\* Mutant of MapResult: the results in the order the workers finished them
MapResultAsCompleted(slots, done) == [k \in 1..Len(done) |-> slots[done[k]]]

\* what pool.map returns: the results in the order of its input, whatever the
\* order `done` in which the workers finished them
MapResult(slots, done) == slots

\* pool.map returns once no task is pending
MapIsOver(slots) == \A i \in 1..Len(slots) : slots[i] # Pending

\* what _make_manifest leaves: the manifest written and the oxum returned
Manifested(walk, slots, done, man) ==
    [op |-> "make_manifest", value |-> slots, exc |-> "none", walk |-> walk,
     done |-> done, oxum |-> man.oxum, lines |-> man.lines]

\* _make_manifest('manifest-md5.txt', 'data', processes) with processes <= 1
\* runs from the walk to the return
MakeManifestSequential ==
    /\ pc = "idle" /\ result.op = "none"
    /\ src.processes <= 1
    /\ \E walk \in WalkOrders(disk.files) :
          \E man \in {MakeManifest(walk)} :
              /\ result' = Manifested(walk, Map(walk), <<>>, man)
              /\ disk' = [disk EXCEPT !.manifests["md5"] = FileOf(man.lines)]
    /\ pc' = "written"
    /\ UNCHANGED <<tagVars, bag, fast, started, outcome, hashed, oxumRun, src>>

\* _make_manifest with processes > 1: pool.map hands the walk to the workers
PoolMapStarts ==
    /\ pc = "idle" /\ result.op = "none"
    /\ src.processes > 1
    /\ \E walk \in WalkOrders(disk.files) :
          result' = [op |-> "make_manifest", value |-> [i \in 1..Len(walk) |-> Pending],
                     exc |-> "none", walk |-> walk, done |-> <<>>,
                     oxum |-> <<>>, lines |-> <<>>]
    /\ pc' = "mapping"
    /\ UNCHANGED <<tagVars, bagVars, fast, started, outcome, hashed, oxumRun, src>>

\* a worker finishes _manifest_line of one file, in any order
WorkerReturns(i) ==
    /\ pc = "mapping"
    /\ i <= Len(result.value)
    /\ result.value[i] = Pending
    /\ result' = [result EXCEPT !.value[i] = ManifestLineOf(result.walk[i]),
                                !.done = Append(@, i)]
    /\ UNCHANGED <<tagVars, bagVars, callVars, src>>

\* pool.map returns, pool.close(), pool.join(), and the manifest is written
PoolMapReturns ==
    /\ pc = "mapping"
    /\ MapIsOver(result.value)
    /\ \E man \in {WriteManifest(MapResult(result.value, result.done))} :
          /\ result' = Manifested(result.walk, result.value, result.done, man)
          /\ disk' = [disk EXCEPT !.manifests["md5"] = FileOf(man.lines)]
    /\ pc' = "written"
    /\ UNCHANGED <<tagVars, bag, fast, started, outcome, hashed, oxumRun, src>>

\* the payloads handed to _make_manifest: at most MaxFiles files at data/a,
\* data/b and data/d/b
ManifestPlaces == <<<<NameA>>, <<NameB>>, <<NameD, NameB>>>>

ManifestPayloads ==
    {fs \in SUBSET [at : {ManifestPlaces[i] : i \in 1..Len(ManifestPlaces)},
                    content : Contents] :
        /\ Cardinality(fs) <= MaxFiles
        /\ \A f, g \in fs : f.at = g.at => f = g}

\* the data directory as make_bag leaves it for _make_manifest
InitManifest ==
    /\ \E fs \in ManifestPayloads, n \in 1..MaxProcesses :
          /\ src = [isdir |-> TRUE, files |-> fs, bag_info |-> EmptyDict, processes |-> n]
          /\ disk = [NoDisk EXCEPT !.dataDir = TRUE, !.files = fs]
    /\ bag = NoBag
    /\ pc = "idle" /\ fast = FALSE /\ started = <<>> /\ outcome = NoOutcome
    /\ hashed = {} /\ oxumRun = FALSE
    /\ tagFile = <<>> /\ parsed = NotParsed
    /\ result = NoResult

NextManifest ==
    \/ MakeManifestSequential
    \/ PoolMapStarts
    \/ \E i \in 1..MaxFiles : WorkerReturns(i)
    \/ PoolMapReturns

SpecManifest == InitManifest /\ [][NextManifest]_vars

\* the manifest lines of the files of d, sorted by path: ManifestPlaces is
\* in the order of the characters of the paths
SortedLines(d) ==
    LET there == SelectSeq([i \in 1..Len(ManifestPlaces) |-> i],
                           LAMBDA i : \E f \in d.files : f.at = ManifestPlaces[i])
    IN  [k \in 1..Len(there) |->
            ManifestLine(
                HexDigest("md5", (CHOOSE f \in d.files : f.at = ManifestPlaces[there[k]]).content),
                RelPathOf(ManifestPlaces[there[k]]))]

\* the manifest is on disk only once every result is in, and it and the oxum
\* returned are what a run with processes <= 1 writes and returns for the same walk
ManifestAsSequential ==
    /\ disk.manifests["md5"].exists =>
          /\ pc = "written"
          /\ MapIsOver(result.value) /\ Len(result.value) = Cardinality(disk.files)
    /\ pc = "written" =>
          /\ disk.manifests["md5"].lines = MakeManifest(result.walk).lines
          /\ result.oxum = MakeManifest(result.walk).oxum
          /\ result.oxum = Str(OxumOnDisk(disk)[1]) \o <<".">> \o Str(OxumOnDisk(disk)[2])

-----------------------------------------------------------------------------
(* The tag files the parser is run on *)

MaxTagLines == 3

\* Line contents without the line end: every string of at most two tokens over
\* a letter, the separator and a blank, and some longer ones with a second letter
LineBodies ==
    {<<>>}
    \cup {<<c>> : c \in {"a", ":", " "}}
    \cup {<<c, d>> : c \in {"a", ":", " "}, d \in {"a", ":", " "}}
    \cup {<<"a", ":", "b">>, <<"b", ":", "a">>, <<" ", "b">>, <<"a", ":", " ", "b", " ">>}

\* A file is read line by line: every line ends with a newline, except that the
\* last one may not (and is then not empty); the first may start with a BOM
TagFiles ==
    { f \in { [i \in 1..Len(bodies) |->
                  (IF i = 1 /\ bom THEN <<BOM>> ELSE <<>>) \o bodies[i]
                  \o (IF i = Len(bodies) /\ ~finalNL THEN <<>> ELSE <<NL>>)] :
              bodies \in UNION {[1..n -> LineBodies] : n \in 0..MaxTagLines},
              bom \in BOOLEAN, finalNL \in BOOLEAN } :
      \A i \in 1..Len(f) : f[i] # <<>> }

\* the parser is run once on the file
DoParseTags ==
    /\ parsed.exc = "pending"
    /\ parsed' = ParseTags(tagFile)
    /\ UNCHANGED <<tagFile, bagVars, callVars, result, src>>

InitTags ==
    /\ tagFile \in TagFiles
    /\ parsed = NotParsed
    /\ disk = NoDisk /\ bag = BagOpen(NoDisk)
    /\ pc = "idle" /\ fast = FALSE /\ started = <<>> /\ outcome = NoOutcome
    /\ hashed = {} /\ oxumRun = FALSE
    /\ result = NoResult /\ src = NoSrc

NextTags == DoParseTags

SpecTags == InitTags /\ [][NextTags]_vars

-----------------------------------------------------------------------------
(* What the fold of a tag file is, line by line *)

\* line i as the parser sees it: without the byte-order mark of the first line
SeenLine(f, i) ==
    IF i = 1 /\ f[i] # <<>> /\ Head(f[i]) = BOM THEN LStripChars(f[i], {BOM}) ELSE f[i]

IsBlankLine(f, i) == SeenLine(f, i) = <<>> \/ IsSpaceStr(SeenLine(f, i))

IsTagLine(f, i) == ~IsBlankLine(f, i) /\ ~IsSpace(SeenLine(f, i)[1])

IsContinuation(f, i) == ~IsBlankLine(f, i) /\ IsSpace(SeenLine(f, i)[1])

\* the continuation lines of the tag that starts at line i
ContinuationsOf(f, i) ==
    {j \in (i + 1)..Len(f) :
        IsContinuation(f, j) /\ \A k \in (i + 1)..(j - 1) : ~IsTagLine(f, k)}

TagNameAt(f, i) ==
    LET c == Find(SeenLine(f, i), ":")
    IN  Strip(SubSeq(SeenLine(f, i), 1, c - 1))

\* the trimmed fragments of the tag at line i, concatenated in line order
UnfoldedValueAt(f, i) ==
    LET c == Find(SeenLine(f, i), ":")
        frag(j) == IF j = i THEN Strip(SubSeq(SeenLine(f, i), c + 1, Len(SeenLine(f, i))))
                   ELSE IF j \in ContinuationsOf(f, i) THEN Strip(SeenLine(f, j))
                   ELSE <<>>
    IN  Concat([j \in 1..Len(f) |-> IF j < i THEN <<>> ELSE frag(j)])

\* the tags of the file: one pair per tag line with a name, in line order
ExpectedPairs(f) ==
    LET named(i) == IsTagLine(f, i) /\ TagNameAt(f, i) # <<>>
        idx == SelectSeq([i \in 1..Len(f) |-> i], named)
    IN  [k \in 1..Len(idx) |-> <<TagNameAt(f, idx[k]), UnfoldedValueAt(f, idx[k])>>]

\* C8: parsing a tag file of decodable lines never raises: it ends with a
\* sequence of (name, value) pairs
C8_ParseNeverRaises == parsed.exc \in {"pending", "none"}

\* C9: when the parser ends without raising, it has yielded exactly one pair per
\* named tag, in order, whose value is the trimmed first fragment followed by
\* the trimmed continuation fragments with nothing in between; blank lines
\* between them do not end the fold
C9_FoldedValueIsConcatenation ==
    parsed.exc = "none" => parsed.pairs = ExpectedPairs(tagFile)

\* C9 witness: a parsed file with a tag whose continuation follows a blank line
C9_FoldWitness ==
    /\ parsed.exc = "none"
    /\ \E i \in 1..Len(tagFile) : \E j \in ContinuationsOf(tagFile, i) :
          /\ IsTagLine(tagFile, i) /\ TagNameAt(tagFile, i) # <<>>
          /\ \E k \in (i + 1)..(j - 1) : IsBlankLine(tagFile, k)
          /\ Strip(SeenLine(tagFile, j)) # <<>>
          /\ \E n \in 1..Len(parsed.pairs) :
                parsed.pairs[n] = <<TagNameAt(tagFile, i), UnfoldedValueAt(tagFile, i)>>

====
